---- MODULE Spec2Model ----
(***************************************************************************)
(* The external MQTT bridge of core-command                                *)
(* (internal/core/command/controller/messaging/external.go).               *)
(*                                                                         *)
(* Two message handlers are subscribed on the external broker:             *)
(*   commandQueryHandler    answers "which commands does device X have"    *)
(*   commandRequestHandler  forwards a get/set command to the internal     *)
(*                          message bus and publishes the reply            *)
(* Both answer through publishMessage.  Topics are strings; they are       *)
(* modelled as sequences of one-character strings so that strings.Split,   *)
(* strings.Join and strings.EqualFold are computed, not assumed.           *)
(***************************************************************************)
EXTENDS Integers, Sequences, FiniteSets, TLC

VARIABLES
    config,         \* the configuration read through the DI container
    pc,             \* pc[h]: where handler invocation h stands
    message,        \* message[h]: the mqtt.Message the invocation was called with
    frame,          \* frame[h]: the local variables of the invocation
    published,      \* the client.Publish calls made on the external broker, in order
    busRequests,    \* the internalMessageBus.Request calls made, in order
    subscriptions   \* the client.Subscribe calls made on the external broker, in order

vars == <<config, pc, message, frame, published, busRequests, subscriptions>>

----------------------------------------------------------------------------
(* Bounds *)

\* number of topic levels that may precede <device>/<command>/<method>
MaxPrefix == 1

\* number of times the external broker connection is established
MaxConnects == 3

----------------------------------------------------------------------------
(* Strings *)

\* a string literal as its sequence of characters
s_empty == <<>>
s_get   == <<"g", "e", "t">>
s_set   == <<"s", "e", "t">>
s_GeT   == <<"G", "e", "T">>
s_SET   == <<"S", "E", "T">>
s_sets  == <<"s", "e", "t", "s">>
s_ge    == <<"g", "e">>
s_d     == <<"d">>
s_c     == <<"c">>
s_e     == <<"e">>
s_r     == <<"r">>
s_q     == <<"q">>
s_i     == <<"i">>
s_all   == <<"a", "l", "l">>
s_AlL   == <<"A", "l", "L">>
s_qreq  == <<"q", "/", "#">>
s_creq  == <<"c", "/", "#">>
s_svcA  == <<"A">>
s_svcB  == <<"B">>

Slash == "/"

\* unicode.ToLower restricted to the characters the model uses
ToLower(ch) ==
    CASE ch = "G" -> "g"
      [] ch = "E" -> "e"
      [] ch = "T" -> "t"
      [] ch = "S" -> "s"
      [] ch = "A" -> "a"
      [] ch = "L" -> "l"
      [] OTHER   -> ch

\* a wrong EqualFold: folds only the first character
EqualFoldFirstOnly(s, t) ==
    /\ Len(s) = Len(t)
    /\ \A k \in 1..Len(s) : (IF k = 1 THEN ToLower(s[k]) ELSE s[k]) = (IF k = 1 THEN ToLower(t[k]) ELSE t[k])

\* strings.EqualFold(s, t)
EqualFold(s, t) ==
    /\ Len(s) = Len(t)
    /\ \A k \in 1..Len(s) : ToLower(s[k]) = ToLower(t[k])

\* index of the first Slash of s, 0 when there is none
IndexSlash(s) ==
    IF \E k \in 1..Len(s) : s[k] = Slash
    THEN CHOOSE k \in 1..Len(s) : s[k] = Slash /\ \A j \in 1..(k-1) : s[j] # Slash
    ELSE 0

RECURSIVE Split(_)
\* strings.Split(s, "/")
Split(s) ==
    LET k == IndexSlash(s) IN
    IF k = 0 THEN <<s>>
    ELSE <<SubSeq(s, 1, k-1)>> \o Split(SubSeq(s, k+1, Len(s)))

RECURSIVE Join(_)
\* strings.Join(elems, "/")
Join(elems) ==
    IF Len(elems) = 0 THEN <<>>
    ELSE IF Len(elems) = 1 THEN elems[1]
    ELSE elems[1] \o <<Slash>> \o Join(Tail(elems))

----------------------------------------------------------------------------
(* Message envelopes (types.MessageEnvelope of go-mod-messaging) *)

RequestIDs == {"R1", "R2"}

\* QueryParams is a map[string]string, kept as its set of <<name, value>> pairs
NoParams      == {}
GoodParams    == {<<"ds-returnevent", "true">>}
BadParams     == {<<"ds-returnevent", "maybe">>}
QueryParamsSet == {NoParams, GoodParams, BadParams}

\* the zero value of types.MessageEnvelope
ZeroEnvelope ==
    [RequestID |-> "", CorrelationID |-> "", ErrorCode |-> 0, Payload |-> "",
     QueryParams |-> NoParams, ContentType |-> ""]

\* the envelopes an external client sends
RequestEnvelopes ==
    [RequestID : RequestIDs, CorrelationID : {"X1"}, ErrorCode : {0},
     Payload : {"req"}, QueryParams : QueryParamsSet, ContentType : {"application/json"}]

\* the envelopes a device service or the query collaborator may answer with;
\* nothing in this file constrains their RequestID or ErrorCode
ResponseEnvelopes ==
    [RequestID : RequestIDs, CorrelationID : {"X1"}, ErrorCode : {0, 1},
     Payload : {"42"}, QueryParams : {NoParams}, ContentType : {"application/json"}]

\* an error envelope that forgets the request id
NewMessageEnvelopeWithErrorNoID(requestId, errorMessage) ==
    [RequestID |-> "", CorrelationID |-> "", ErrorCode |-> 1, Payload |-> errorMessage,
     QueryParams |-> NoParams, ContentType |-> "text/plain"]

\* an error envelope that leaves ErrorCode at its zero value
NewMessageEnvelopeWithErrorCodeZero(requestId, errorMessage) ==
    [RequestID |-> requestId, CorrelationID |-> "", ErrorCode |-> 0, Payload |-> errorMessage,
     QueryParams |-> NoParams, ContentType |-> "text/plain"]

\* types.NewMessageEnvelopeWithError(requestId, errorMessage)
NewMessageEnvelopeWithError(requestId, errorMessage) ==
    [RequestID |-> requestId, CorrelationID |-> "", ErrorCode |-> 1, Payload |-> errorMessage,
     QueryParams |-> NoParams, ContentType |-> "text/plain"]

\* json.Marshal(&message): the bytes of an envelope
Marshal(envelope) == <<"json", envelope>>

\* bytes that are not the JSON of an envelope
Garbage == <<"raw", "{">>

\* the payloads a message may carry
Payloads == {Marshal(e) : e \in RequestEnvelopes} \cup {Garbage}

\* types.NewMessageEnvelopeFromJSON(payload): [err, envelope]
NewMessageEnvelopeFromJSON(payload) ==
    IF payload[1] = "json"
    THEN [err |-> "", envelope |-> payload[2]]
    ELSE [err |-> "invalid character", envelope |-> ZeroEnvelope]

----------------------------------------------------------------------------
(* Configuration (container.ConfigurationFrom(dic.Get)) *)

CommandQueryRequestTopicKey          == "CommandQueryRequestTopic"
CommandRequestTopicKey               == "CommandRequestTopic"
CommandQueryResponseTopicKey         == "CommandQueryResponseTopic"
CommandResponseTopicPrefixKey        == "CommandResponseTopicPrefix"
DeviceCommandRequestTopicPrefixKey   == "DeviceCommandRequestTopicPrefix"

\* m[key] of a Go map[string]string: the empty string when the key is absent
MapGet(m, key) == IF key \in DOMAIN m THEN m[key] ELSE s_empty

\* ExternalMQTT.Topics with the query response topic absent, empty, or set
ExternalTopicMaps ==
    { [CommandQueryRequestTopic |-> s_qreq, CommandRequestTopic |-> s_creq,
       CommandResponseTopicPrefix |-> s_r],
      [CommandQueryRequestTopic |-> s_qreq, CommandRequestTopic |-> s_creq,
       CommandResponseTopicPrefix |-> s_r, CommandQueryResponseTopic |-> s_empty],
      [CommandQueryRequestTopic |-> s_qreq, CommandRequestTopic |-> s_creq,
       CommandResponseTopicPrefix |-> s_r, CommandQueryResponseTopic |-> s_q] }

Configs ==
    { [ExternalMQTT   |-> [Topics |-> t, QoS |-> 1, Retain |-> TRUE],
       MessageBus     |-> [Topics |-> [DeviceCommandRequestTopicPrefix |-> s_i]],
       requestTimeout |-> "5s"] : t \in ExternalTopicMaps }

----------------------------------------------------------------------------
(* Topics a message may arrive on *)

\* the device, command and method levels clients use
DeviceNames  == {s_d, s_empty}
CommandNames == {s_c, s_get}
Methods      == {s_get, s_GeT, s_set, s_SET, s_sets, s_ge, s_empty}
PrefixLevels == {s_e, s_get}

RECURSIVE SeqsUpTo(_, _)
\* the sequences over S of length at most n
SeqsUpTo(S, n) ==
    IF n = 0 THEN {<<>>}
    ELSE LET shorter == SeqsUpTo(S, n - 1) IN
         shorter \cup {Append(q, x) : q \in shorter, x \in S}

\* topics of at least three levels: a prefix, then device/command/method
LongTopics ==
    { Join(p \o <<d, c, m>>) :
        p \in SeqsUpTo(PrefixLevels, MaxPrefix), d \in DeviceNames,
        c \in CommandNames, m \in Methods }

\* topics of one or two levels
ShortTopics ==
    { Join(q) : q \in SeqsUpTo(DeviceNames \cup {s_get, s_SET, s_AlL, s_all}, 2) }

Topics == LongTopics \cup ShortTopics

----------------------------------------------------------------------------
(* Collaborators outside this file.  What they return is not decided here,  *)
(* so each is the set of results it may return.                              *)

DeviceServiceNames == {s_svcA, s_svcB}

\* validateRequestTopic(prefix, deviceName, commandName, method, dic):
\* an error, or the device service and the internal request topic
validateRequestTopic(prefix, deviceName, commandName, method) ==
    { [err |-> "device not found", deviceServiceName |-> s_empty, deviceRequestTopic |-> s_empty] }
    \cup
    { [err |-> "", deviceServiceName |-> svc,
       deviceRequestTopic |-> Join(<<prefix, svc, deviceName, commandName, method>>)] :
        svc \in DeviceServiceNames }

\* validateGetCommandQueryParameters(queryParams): the error, "" for nil
validateGetCommandQueryParameters(queryParams) ==
    IF \A p \in queryParams : p[2] \in {"true", "false"}
    THEN ""
    ELSE "invalid query parameter"

\* internalMessageBus.Request(envelope, service, topic, timeout): a response
\* envelope, or an error when no response came in time or the transport failed
RequestResults ==
    { [err |-> "", response |-> r] : r \in ResponseEnvelopes }
    \cup
    { [err |-> e, response |-> ZeroEnvelope] : e \in {"timed out", "not connected"} }

\* getCommandQueryResponseEnvelope(requestEnvelope, deviceName, dic): an error, or a
\* response envelope for the request, which echoes its RequestID
getCommandQueryResponseEnvelope(requestEnvelope, deviceName) ==
    { [err |-> "", responseEnvelope |-> r] :
        r \in {e \in ResponseEnvelopes : e.RequestID = requestEnvelope.RequestID} }
    \cup
    { [err |-> "device not found", responseEnvelope |-> ZeroEnvelope] }

\* token.Error() of a client.Publish: "" for nil
TokenErrors == {"", "connection lost"}

----------------------------------------------------------------------------
(* Handler invocations *)

Handlers == {"h1", "h2"}

\* the local variables of an invocation before it runs; ret is the source
\* line of the return statement the invocation left by (0: still running)
ZeroFrame ==
    [handler |-> "", ret |-> 0,
     decodeErr |-> "", requestEnvelope |-> ZeroEnvelope,
     responseTopic |-> s_empty,
     topicLevels |-> <<>>, deviceName |-> s_empty, commandName |-> s_empty, method |-> s_empty,
     externalResponseTopic |-> s_empty,
     routeErr |-> "", deviceServiceName |-> s_empty, deviceRequestTopic |-> s_empty,
     paramsErr |-> "", queryErr |-> "", requestErr |-> "", response |-> ZeroEnvelope]

NoMessage == [topic |-> s_empty, payload |-> Garbage]

Init ==
    /\ config \in Configs
    /\ pc = [h \in Handlers |-> "idle"]
    /\ message = [h \in Handlers |-> NoMessage]
    /\ frame = [h \in Handlers |-> ZeroFrame]
    /\ published = <<>>
    /\ busRequests = <<>>
    /\ subscriptions = <<>>

\* a publishMessage that publishes again when the token reports an error
publishMessageRetry(h, responseTopic, qos, retain, msg, tokenErr) ==
    LET call == [handler |-> h, topic |-> responseTopic, qos |-> qos, retain |-> retain,
                 payload |-> Marshal(msg), tokenErr |-> tokenErr]
    IN published' = IF tokenErr # "" THEN published \o <<call, call>> ELSE Append(published, call)

\* publishMessage(client, responseTopic, qos, retain, message, lc)
publishMessage(h, responseTopic, qos, retain, msg, tokenErr) ==
    published' = Append(published,
        [handler |-> h, topic |-> responseTopic, qos |-> qos, retain |-> retain,
         payload |-> Marshal(msg), tokenErr |-> tokenErr])

\* a query handler that answers on the empty topic
ResponseTopicMissingNever(responseTopic) == FALSE

\* responseTopic == "" (line 62)
ResponseTopicMissing(responseTopic) == responseTopic = s_empty

\* deviceName of a query topic: its last level, common.All for any case of "all"
QueryDeviceName(topicLevels) ==
    LET deviceName == topicLevels[Len(topicLevels)] IN
    IF EqualFold(deviceName, s_all) THEN s_all ELSE deviceName

\* the function commandQueryHandler returns, called with message (topic, payload)
commandQueryHandler(h, topic, payload) ==
    /\ pc[h] = "idle"
    /\ message' = [message EXCEPT ![h] = [topic |-> topic, payload |-> payload]]
    /\ LET decoded == NewMessageEnvelopeFromJSON(payload)
           requestEnvelope == decoded.envelope
           externalMQTTInfo == config.ExternalMQTT
           responseTopic == MapGet(externalMQTTInfo.Topics, CommandQueryResponseTopicKey)
           topicLevels == Split(topic)
           deviceName == QueryDeviceName(topicLevels)
           f0 == [ZeroFrame EXCEPT !.handler = "commandQueryHandler",
                                   !.decodeErr = decoded.err,
                                   !.requestEnvelope = requestEnvelope]
       IN
       IF decoded.err # ""
       THEN /\ frame' = [frame EXCEPT ![h] = [f0 EXCEPT !.ret = 57]]
            /\ UNCHANGED published
       ELSE IF ResponseTopicMissing(responseTopic)
       THEN /\ frame' = [frame EXCEPT ![h] = [f0 EXCEPT !.ret = 65, !.responseTopic = responseTopic]]
            /\ UNCHANGED published
       ELSE \E result \in getCommandQueryResponseEnvelope(requestEnvelope, deviceName),
               tokenErr \in TokenErrors :
            LET responseEnvelope ==
                    IF result.err # ""
                    THEN NewMessageEnvelopeWithError(requestEnvelope.RequestID, result.err)
                    ELSE result.responseEnvelope
            IN
            /\ frame' = [frame EXCEPT ![h] =
                    [f0 EXCEPT !.ret = 84, !.responseTopic = responseTopic,
                               !.topicLevels = topicLevels, !.deviceName = deviceName,
                               !.queryErr = result.err, !.response = result.responseEnvelope]]
            /\ publishMessage(h, responseTopic, externalMQTTInfo.QoS, externalMQTTInfo.Retain,
                              responseEnvelope, tokenErr)
    /\ pc' = [pc EXCEPT ![h] = "done"]
    /\ UNCHANGED <<config, busRequests, subscriptions>>

\* length < 3 (line 105)
TooFewLevels(length) == length < 3

\* a parse that takes the first three levels
ParseCommandTopicFromFront(topicLevels) ==
    [deviceName |-> topicLevels[1], commandName |-> topicLevels[2], method |-> topicLevels[3]]

\* deviceName, commandName, method := topicLevels[length-3], [length-2], [length-1]
\* (lines 112-114; Go indexes from 0, Sequences from 1)
ParseCommandTopic(topicLevels) ==
    LET length == Len(topicLevels) IN
    [deviceName |-> topicLevels[length - 2], commandName |-> topicLevels[length - 1],
     method |-> topicLevels[length]]

\* a method check that knows only "get"
MethodAllowedGetOnly(method) == EqualFold(method, s_get)

\* !(!EqualFold(method, "get") && !EqualFold(method, "set")) (line 115)
MethodAllowed(method) == ~(~EqualFold(method, s_get) /\ ~EqualFold(method, s_set))

\* a response topic with the device and command levels swapped
ExternalResponseTopicSwapped(prefix, deviceName, commandName, method) ==
    Join(<<prefix, commandName, deviceName, method>>)

\* a response topic whose method level is folded to lower case
ExternalResponseTopicLowered(prefix, deviceName, commandName, method) ==
    Join(<<prefix, deviceName, commandName, [k \in 1..Len(method) |-> ToLower(method[k])]>>)

\* strings.Join([]string{prefix, deviceName, commandName, method}, "/") (line 121)
ExternalResponseTopic(prefix, deviceName, commandName, method) ==
    Join(<<prefix, deviceName, commandName, method>>)

\* a check of the query parameters that is skipped
QueryParamsErrorIgnored(requestEnvelope) == ""

\* err = validateGetCommandQueryParameters(requestEnvelope.QueryParams) (line 131);
\* the method is not looked at
QueryParamsError(requestEnvelope) ==
    validateGetCommandQueryParameters(requestEnvelope.QueryParams)

\* a Request that sends the envelope without its query parameters
RequestStripped(h, requestEnvelope, deviceServiceName, deviceRequestTopic, requestTimeout) ==
    busRequests' = Append(busRequests,
        [handler |-> h, envelope |-> [requestEnvelope EXCEPT !.QueryParams = NoParams],
         deviceServiceName |-> deviceServiceName,
         topic |-> deviceRequestTopic, timeout |-> requestTimeout])

\* internalMessageBus.Request(requestEnvelope, deviceServiceName, deviceRequestTopic, requestTimeout)
\* is called; the handler blocks in it until RequestReturns
Request(h, requestEnvelope, deviceServiceName, deviceRequestTopic, requestTimeout) ==
    busRequests' = Append(busRequests,
        [handler |-> h, envelope |-> requestEnvelope, deviceServiceName |-> deviceServiceName,
         topic |-> deviceRequestTopic, timeout |-> requestTimeout])

\* the two checks in the other order: query parameters first, then the route
ResolveAndRequestParamsFirst(h, f3, route) ==
    LET requestEnvelope == f3.requestEnvelope
        paramsErr == QueryParamsError(requestEnvelope)
        f4 == [f3 EXCEPT !.paramsErr = paramsErr]
        f5 == [f4 EXCEPT !.routeErr = route.err,
                         !.deviceServiceName = route.deviceServiceName,
                         !.deviceRequestTopic = route.deviceRequestTopic]
    IN
    IF paramsErr # ""
    THEN \E tokenErr \in TokenErrors :
         /\ frame' = [frame EXCEPT ![h] = [f5 EXCEPT !.ret = 135]]
         /\ publishMessage(h, f3.externalResponseTopic,
                config.ExternalMQTT.QoS, config.ExternalMQTT.Retain,
                NewMessageEnvelopeWithError(requestEnvelope.RequestID, paramsErr), tokenErr)
         /\ pc' = [pc EXCEPT ![h] = "done"]
         /\ UNCHANGED busRequests
    ELSE IF route.err # ""
    THEN \E tokenErr \in TokenErrors :
         /\ frame' = [frame EXCEPT ![h] = [f5 EXCEPT !.ret = 128]]
         /\ publishMessage(h, f3.externalResponseTopic,
                config.ExternalMQTT.QoS, config.ExternalMQTT.Retain,
                NewMessageEnvelopeWithError(requestEnvelope.RequestID, route.err), tokenErr)
         /\ pc' = [pc EXCEPT ![h] = "done"]
         /\ UNCHANGED busRequests
    ELSE /\ frame' = [frame EXCEPT ![h] = f5]
         /\ Request(h, requestEnvelope, route.deviceServiceName, route.deviceRequestTopic,
                    config.requestTimeout)
         /\ pc' = [pc EXCEPT ![h] = "Request"]
         /\ UNCHANGED published

\* commandRequestHandler from the result of validateRequestTopic to the call of
\* internalMessageBus.Request (lines 124-143); f3 holds the locals so far
ResolveAndRequest(h, f3, route) ==
    LET requestEnvelope == f3.requestEnvelope
        qos == config.ExternalMQTT.QoS
        retain == config.ExternalMQTT.Retain
        paramsErr == QueryParamsError(requestEnvelope)
        f4 == [f3 EXCEPT !.routeErr = route.err,
                         !.deviceServiceName = route.deviceServiceName,
                         !.deviceRequestTopic = route.deviceRequestTopic]
        f5 == [f4 EXCEPT !.paramsErr = paramsErr]
    IN
    IF route.err # ""
    THEN \E tokenErr \in TokenErrors :
         /\ frame' = [frame EXCEPT ![h] = [f4 EXCEPT !.ret = 128]]
         /\ publishMessage(h, f3.externalResponseTopic, qos, retain,
                NewMessageEnvelopeWithError(requestEnvelope.RequestID, route.err), tokenErr)
         /\ pc' = [pc EXCEPT ![h] = "done"]
         /\ UNCHANGED busRequests
    ELSE IF paramsErr # ""
    THEN \E tokenErr \in TokenErrors :
         /\ frame' = [frame EXCEPT ![h] = [f5 EXCEPT !.ret = 135]]
         /\ publishMessage(h, f3.externalResponseTopic, qos, retain,
                NewMessageEnvelopeWithError(requestEnvelope.RequestID, paramsErr), tokenErr)
         /\ pc' = [pc EXCEPT ![h] = "done"]
         /\ UNCHANGED busRequests
    ELSE /\ frame' = [frame EXCEPT ![h] = f5]
         /\ Request(h, requestEnvelope, route.deviceServiceName, route.deviceRequestTopic,
                    config.requestTimeout)
         /\ pc' = [pc EXCEPT ![h] = "Request"]
         /\ UNCHANGED published

\* the function commandRequestHandler returns, called with message (topic, payload),
\* up to its return or to the call of internalMessageBus.Request (line 143)
commandRequestHandler(h, topic, payload) ==
    /\ pc[h] = "idle"
    /\ message' = [message EXCEPT ![h] = [topic |-> topic, payload |-> payload]]
    /\ LET externalMQTTInfo == config.ExternalMQTT
           qos == externalMQTTInfo.QoS
           retain == externalMQTTInfo.Retain
           decoded == NewMessageEnvelopeFromJSON(payload)
           requestEnvelope == decoded.envelope
           topicLevels == Split(topic)
           length == Len(topicLevels)
           parsed == ParseCommandTopic(topicLevels)
           deviceName == parsed.deviceName
           commandName == parsed.commandName
           method == parsed.method
           externalResponseTopic ==
               ExternalResponseTopic(MapGet(externalMQTTInfo.Topics, CommandResponseTopicPrefixKey),
                                     deviceName, commandName, method)
           internalMessageBusInfo == config.MessageBus
           f0 == [ZeroFrame EXCEPT !.handler = "commandRequestHandler",
                                   !.decodeErr = decoded.err,
                                   !.requestEnvelope = requestEnvelope]
           f1 == [f0 EXCEPT !.topicLevels = topicLevels]
           f2 == [f1 EXCEPT !.deviceName = deviceName, !.commandName = commandName,
                            !.method = method]
           f3 == [f2 EXCEPT !.externalResponseTopic = externalResponseTopic]
       IN
       IF decoded.err # ""
       THEN /\ frame' = [frame EXCEPT ![h] = [f0 EXCEPT !.ret = 100]]
            /\ pc' = [pc EXCEPT ![h] = "done"]
            /\ UNCHANGED <<published, busRequests>>
       ELSE IF TooFewLevels(length)
       THEN /\ frame' = [frame EXCEPT ![h] = [f1 EXCEPT !.ret = 108]]
            /\ pc' = [pc EXCEPT ![h] = "done"]
            /\ UNCHANGED <<published, busRequests>>
       ELSE IF ~MethodAllowed(method)
       THEN /\ frame' = [frame EXCEPT ![h] = [f2 EXCEPT !.ret = 118]]
            /\ pc' = [pc EXCEPT ![h] = "done"]
            /\ UNCHANGED <<published, busRequests>>
       ELSE \E route \in validateRequestTopic(
                    MapGet(internalMessageBusInfo.Topics, DeviceCommandRequestTopicPrefixKey),
                    deviceName, commandName, method) :
            ResolveAndRequest(h, f3, route)
    /\ UNCHANGED <<config, subscriptions>>

\* a success path that rebuilds the envelope around the request's RequestID
ResponseToPublishRewrapped(requestEnvelope, response) ==
    [response EXCEPT !.RequestID = requestEnvelope.RequestID]

\* *response, the envelope handed to publishMessage on success (line 153)
ResponseToPublish(requestEnvelope, response) == response

\* an error message that hides the failure
RequestErrorMessageSilent(err) == ""

\* fmt.Sprintf("Failed to send DeviceCommand request with internal MessageBus: %v", err)
RequestErrorMessage(err) ==
    "Failed to send DeviceCommand request with internal MessageBus: " \o err

\* a failure branch that returns without answering
RequestFailedSilently(h, err, tokenErr) ==
    /\ frame' = [frame EXCEPT ![h] = [@ EXCEPT !.ret = 148, !.requestErr = err]]
    /\ UNCHANGED published

\* err != nil after Request (lines 144-149)
RequestFailed(h, err, tokenErr) ==
    /\ frame' = [frame EXCEPT ![h] = [@ EXCEPT !.ret = 148, !.requestErr = err]]
    /\ publishMessage(h, frame[h].externalResponseTopic,
           config.ExternalMQTT.QoS, config.ExternalMQTT.Retain,
           NewMessageEnvelopeWithError(frame[h].requestEnvelope.RequestID,
                                       RequestErrorMessage(err)), tokenErr)

\* a success branch whose response topic is one variable shared by all
\* invocations, holding the topic of whichever invocation wrote it last
RequestSucceededSharedTopic(h, response, tokenErr) ==
    LET others == {g \in Handlers : g # h /\ frame[g].externalResponseTopic # s_empty}
        topic == IF others = {} THEN frame[h].externalResponseTopic
                 ELSE frame[CHOOSE g \in others : TRUE].externalResponseTopic
    IN
    /\ frame' = [frame EXCEPT ![h] = [@ EXCEPT !.ret = 154, !.response = response]]
    /\ publishMessage(h, topic, config.ExternalMQTT.QoS, config.ExternalMQTT.Retain,
           ResponseToPublish(frame[h].requestEnvelope, response), tokenErr)

\* err == nil after Request (lines 151-154)
RequestSucceeded(h, response, tokenErr) ==
    /\ frame' = [frame EXCEPT ![h] = [@ EXCEPT !.ret = 154, !.response = response]]
    /\ publishMessage(h, frame[h].externalResponseTopic,
           config.ExternalMQTT.QoS, config.ExternalMQTT.Retain,
           ResponseToPublish(frame[h].requestEnvelope, response), tokenErr)

\* internalMessageBus.Request returns and commandRequestHandler runs to its end
\* (lines 143-154)
RequestReturns(h) ==
    /\ pc[h] = "Request"
    /\ \E result \in RequestResults, tokenErr \in TokenErrors :
       IF result.err # ""
       THEN RequestFailed(h, result.err, tokenErr)
       ELSE RequestSucceeded(h, result.response, tokenErr)
    /\ pc' = [pc EXCEPT ![h] = "done"]
    /\ UNCHANGED <<config, message, busRequests, subscriptions>>

\* token.Error() of a client.Subscribe: "" for nil
SubscribeErrors == {"", "not authorized"}

\* the record of one client.Subscribe(topic, qos, callback) call
Subscribe(topic, qos, handler, tokenErr) ==
    [topic |-> topic, qos |-> qos, handler |-> handler, tokenErr |-> tokenErr]

\* an OnConnectHandler that returns when the first subscription fails
OnConnectHandlerStopsOnError ==
    /\ Len(subscriptions) < 2 * MaxConnects
    /\ LET externalTopics == config.ExternalMQTT.Topics
           qos == config.ExternalMQTT.QoS
       IN \E queryErr \in SubscribeErrors, commandErr \in SubscribeErrors :
          subscriptions' = subscriptions \o
              IF queryErr # ""
              THEN << Subscribe(MapGet(externalTopics, CommandQueryRequestTopicKey), qos,
                                "commandQueryHandler", queryErr) >>
              ELSE << Subscribe(MapGet(externalTopics, CommandQueryRequestTopicKey), qos,
                                "commandQueryHandler", queryErr),
                      Subscribe(MapGet(externalTopics, CommandRequestTopicKey), qos,
                                "commandRequestHandler", commandErr) >>
    /\ UNCHANGED <<config, pc, message, frame, published, busRequests>>

\* the function OnConnectHandler returns, called when the connection to the
\* external broker is established (lines 26-45)
OnConnectHandler ==
    /\ Len(subscriptions) < 2 * MaxConnects
    /\ LET externalTopics == config.ExternalMQTT.Topics
           qos == config.ExternalMQTT.QoS
           requestQueryTopic == MapGet(externalTopics, CommandQueryRequestTopicKey)
           requestCommandTopic == MapGet(externalTopics, CommandRequestTopicKey)
       IN \E queryErr \in SubscribeErrors, commandErr \in SubscribeErrors :
          subscriptions' = subscriptions \o
              << Subscribe(requestQueryTopic, qos, "commandQueryHandler", queryErr),
                 Subscribe(requestCommandTopic, qos, "commandRequestHandler", commandErr) >>
    /\ UNCHANGED <<config, pc, message, frame, published, busRequests>>

\* the external broker connection is established, lost and established again
NextConnect == OnConnectHandler

SpecConnect == Init /\ [][NextConnect]_vars

----------------------------------------------------------------------------
(* One message is delivered to one handler invocation. *)

Delivered == {"h1"}

Next ==
    \/ \E h \in Delivered, topic \in Topics, payload \in Payloads :
          commandQueryHandler(h, topic, payload)
    \/ \E h \in Delivered, topic \in Topics, payload \in Payloads :
          commandRequestHandler(h, topic, payload)
    \/ \E h \in Delivered : RequestReturns(h)

Spec == Init /\ [][Next]_vars

\* internalMessageBus.Request returns: with a response, or with an error once
\* requestTimeout has passed
FairSpec == Spec /\ \A h \in Handlers : WF_vars(RequestReturns(h))

----------------------------------------------------------------------------
(* Messages are delivered to several handler invocations that run          *)
(* concurrently: the broker client may call a handler while another is     *)
(* still waiting in internalMessageBus.Request.                            *)

\* the messages of the concurrent runs: two command topics that differ in
\* every level and a query topic, two requests that differ in every field a
\* client chooses, and a payload that does not decode
ConcTopics ==
    { Join(<<s_d, s_c, s_get>>), Join(<<s_d, s_c, s_GeT>>),
      Join(<<s_e, s_empty, s_get, s_SET>>), s_AlL }

ConcPayloads ==
    { Marshal([RequestID |-> "R1", CorrelationID |-> "X1", ErrorCode |-> 0, Payload |-> "req",
               QueryParams |-> NoParams, ContentType |-> "application/json"]),
      Marshal([RequestID |-> "R2", CorrelationID |-> "X1", ErrorCode |-> 0, Payload |-> "req",
               QueryParams |-> GoodParams, ContentType |-> "application/json"]),
      Garbage }

InitConc ==
    /\ Init
    /\ CommandQueryResponseTopicKey \in DOMAIN config.ExternalMQTT.Topics
    /\ config.ExternalMQTT.Topics[CommandQueryResponseTopicKey] # s_empty

NextConc ==
    \/ \E h \in Handlers, topic \in ConcTopics, payload \in ConcPayloads :
          commandQueryHandler(h, topic, payload)
    \/ \E h \in Handlers, topic \in ConcTopics, payload \in ConcPayloads :
          commandRequestHandler(h, topic, payload)
    \/ \E h \in Handlers : RequestReturns(h)

SpecConc == InitConc /\ [][NextConc]_vars

----------------------------------------------------------------------------
(* What the properties speak of, read off the message and the two logs     *)
(* rather than off the handler's own locals.                               *)

\* the Publish calls and the Request calls invocation h has made
PublishedBy(h) == SelectSeq(published, LAMBDA call : call.handler = h)
RequestsBy(h)  == SelectSeq(busRequests, LAMBDA call : call.handler = h)

\* invocation h is an invocation of that handler and has returned
Returned(h, handler) == pc[h] = "done" /\ frame[h].handler = handler

\* the payload of h's message is the JSON of an envelope, and that envelope
Decodes(h)   == message[h].payload[1] = "json"
RequestOf(h) == message[h].payload[2]

\* the positions of the '/' in a topic, and its number of levels
SlashesOf(topic) == {k \in 1..Len(topic) : topic[k] = Slash}
LevelsIn(topic)  == Cardinality(SlashesOf(topic)) + 1

\* the topic cut before its last '/', and the level after its last '/'
LastSlash(topic)   == CHOOSE k \in SlashesOf(topic) : \A j \in SlashesOf(topic) : j <= k
WithoutLast(topic) == SubSeq(topic, 1, LastSlash(topic) - 1)
LastLevel(topic)   ==
    IF SlashesOf(topic) = {} THEN topic ELSE SubSeq(topic, LastSlash(topic) + 1, Len(topic))

\* the last three levels of a topic of at least three levels
MethodOf(topic)  == LastLevel(topic)
CommandOf(topic) == LastLevel(WithoutLast(topic))
DeviceOf(topic)  == LastLevel(WithoutLast(WithoutLast(topic)))

\* a string is "get" or "set" in some mix of cases
Lowered(str)  == [k \in 1..Len(str) |-> ToLower(str[k])]
IsGetOrSet(str) == Lowered(str) \in {s_get, s_set}

\* <response-prefix>/<device>/<command>/<method> for the topic of h's message
AnswerTopic(h) ==
    config.ExternalMQTT.Topics[CommandResponseTopicPrefixKey] \o <<Slash>> \o
    DeviceOf(message[h].topic) \o <<Slash>> \o CommandOf(message[h].topic) \o <<Slash>> \o
    MethodOf(message[h].topic)

\* h has published exactly one envelope, an error envelope for its request,
\* on the command response topic
OneErrorAnswer(h) ==
    /\ Len(PublishedBy(h)) = 1
    /\ PublishedBy(h)[1].topic = AnswerTopic(h)
    /\ PublishedBy(h)[1].payload[2].ErrorCode = 1
    /\ PublishedBy(h)[1].payload[2].RequestID = RequestOf(h).RequestID

\* the query response topic is absent from the configuration, or empty
QueryResponseTopicMissing ==
    \/ CommandQueryResponseTopicKey \notin DOMAIN config.ExternalMQTT.Topics
    \/ config.ExternalMQTT.Topics[CommandQueryResponseTopicKey] = s_empty

----------------------------------------------------------------------------
(* Properties *)

\* C1: a command request that decodes and has at least three levels, the last
\* of them neither "get" nor "set" in any case, is answered with exactly one
\* error envelope (ErrorCode 1, the request's RequestID) on
\* <response-prefix>/<device>/<command>/<method>.
C1_InvalidMethodAnswered ==
    \A h \in Handlers :
        ( /\ Returned(h, "commandRequestHandler")
          /\ Decodes(h)
          /\ LevelsIn(message[h].topic) >= 3
          /\ ~IsGetOrSet(MethodOf(message[h].topic)) )
        => OneErrorAnswer(h)

\* C2: a command request that decodes, parses and has a valid method, but whose
\* routing (validateRequestTopic) fails, is answered with exactly one error
\* envelope (ErrorCode 1, the request's RequestID) on
\* <response-prefix>/<device>/<command>/<method>, and no Request is made on
\* the internal bus for it.
C2_RoutingFailureAnswered ==
    \A h \in Handlers :
        ( /\ Returned(h, "commandRequestHandler")
          /\ Decodes(h)
          /\ LevelsIn(message[h].topic) >= 3
          /\ IsGetOrSet(MethodOf(message[h].topic))
          /\ frame[h].routeErr # "" )
        => /\ OneErrorAnswer(h)
           /\ RequestsBy(h) = <<>>

C2_Witness ==
    \E h \in Handlers :
        /\ Returned(h, "commandRequestHandler")
        /\ Decodes(h)
        /\ LevelsIn(message[h].topic) > 3
        /\ MethodOf(message[h].topic) = s_SET
        /\ frame[h].routeErr # ""
        /\ Len(PublishedBy(h)) = 1

\* an invocation that made the Request has returned and published one envelope
Answered(h) == pc[h] = "done" /\ Len(PublishedBy(h)) = 1

\* C3: once the Request on the internal bus is made, the handler stops waiting
\* and publishes; when the Request ended in an error (no response before the
\* timeout, or the transport failed) what it has published is exactly one
\* error envelope (ErrorCode 1, the request's RequestID) on the response topic.
C3_RequestFailureAnswered ==
    /\ [](\A h \in Handlers : frame[h].requestErr # "" => OneErrorAnswer(h))
    /\ \A h \in Handlers : (pc[h] = "Request") ~> Answered(h)

C3_Witness ==
    \E h \in Handlers :
        /\ Returned(h, "commandRequestHandler")
        /\ Len(RequestsBy(h)) = 1
        /\ frame[h].requestErr = "timed out"
        /\ Len(PublishedBy(h)) = 1
        /\ PublishedBy(h)[1].payload[2].ErrorCode = 1

\* h's message cannot be answered: its payload is no envelope, or it is a
\* command request on a topic of fewer than three levels, or it is a query
\* and no query response topic is configured
Unanswerable(h) ==
    /\ pc[h] = "done"
    /\ \/ ~Decodes(h)
       \/ frame[h].handler = "commandRequestHandler" /\ LevelsIn(message[h].topic) < 3
       \/ frame[h].handler = "commandQueryHandler" /\ QueryResponseTopicMissing

\* C4: nothing is published and no Request is made for a message that cannot
\* be answered.
C4_UnanswerableDropped ==
    \A h \in Handlers :
        Unanswerable(h) => PublishedBy(h) = <<>> /\ RequestsBy(h) = <<>>

C4_Witness ==
    \E h \in Handlers :
        /\ Returned(h, "commandQueryHandler")
        /\ Decodes(h)
        /\ CommandQueryResponseTopicKey \in DOMAIN config.ExternalMQTT.Topics
        /\ QueryResponseTopicMissing
        /\ published = <<>>

\* C5: when every gate passes and the Request on the internal bus returns a
\* response envelope, exactly that envelope, every field as it came, is
\* published once on <response-prefix>/<device>/<command>/<method>, and
\* nothing else is published for the message.
C5_ResponsePassedThrough ==
    \A h \in Handlers :
        ( /\ Returned(h, "commandRequestHandler")
          /\ Len(RequestsBy(h)) = 1
          /\ frame[h].requestErr = "" )
        => /\ Len(PublishedBy(h)) = 1
           /\ PublishedBy(h)[1].topic = AnswerTopic(h)
           /\ PublishedBy(h)[1].payload = Marshal(frame[h].response)

C5_Witness ==
    \E h \in Handlers :
        /\ Returned(h, "commandRequestHandler")
        /\ Len(RequestsBy(h)) = 1
        /\ frame[h].requestErr = ""
        /\ frame[h].response \in ResponseEnvelopes
        /\ frame[h].response.RequestID # RequestOf(h).RequestID
        /\ Len(PublishedBy(h)) = 1

\* C6: one invocation of either handler makes at most one Publish call; a
\* Publish whose token reports an error is not made again.
C6_AtMostOnePublish ==
    \A h \in Handlers : Len(PublishedBy(h)) <= 1

C6_Witness ==
    \E h \in Handlers :
        /\ pc[h] = "done"
        /\ Len(PublishedBy(h)) = 1
        /\ PublishedBy(h)[1].tokenErr # ""

\* the RequestID of the envelope a Publish call carries
PublishedRequestID(call) == call.payload[2].RequestID

\* C7, as claimed: every published envelope carries the RequestID of the
\* request it answers, whatever the internal bus or the query collaborator
\* returned.
C7_RequestIDAlwaysEchoed ==
    \A k \in 1..Len(published) :
        PublishedRequestID(published[k]) = RequestOf(published[k].handler).RequestID

\* the invocation published an error envelope it built itself
BuiltError(h) ==
    \/ frame[h].routeErr # ""
    \/ frame[h].paramsErr # ""
    \/ frame[h].requestErr # ""
    \/ frame[h].queryErr # ""

\* C7, amended: an error envelope the bridge builds carries the RequestID of
\* the request; a response envelope obtained from the internal bus or the
\* query collaborator is published with the RequestID that envelope carries.
C7_RequestIDOfAnswer ==
    \A k \in 1..Len(published) :
        LET h == published[k].handler IN
        PublishedRequestID(published[k]) =
            IF BuiltError(h) THEN RequestOf(h).RequestID ELSE frame[h].response.RequestID

C7_Witness ==
    \E h \in Handlers :
        /\ Returned(h, "commandRequestHandler")
        /\ Len(PublishedBy(h)) = 1
        /\ ~BuiltError(h)
        /\ PublishedRequestID(PublishedBy(h)[1]) = "R2"
        /\ RequestOf(h).RequestID = "R1"

\* C8: a query that decodes, with a query response topic configured, is
\* answered with exactly one envelope on that topic: the collaborator's
\* response when it succeeds, otherwise an error envelope with ErrorCode 1,
\* the request's RequestID and the failure message as payload.
C8_QueryAnswered ==
    \A h \in Handlers :
        ( /\ Returned(h, "commandQueryHandler")
          /\ Decodes(h)
          /\ ~QueryResponseTopicMissing )
        => /\ Len(PublishedBy(h)) = 1
           /\ PublishedBy(h)[1].topic = config.ExternalMQTT.Topics[CommandQueryResponseTopicKey]
           /\ LET answer == PublishedBy(h)[1].payload[2] IN
              IF frame[h].queryErr = ""
              THEN answer = frame[h].response
              ELSE /\ answer.ErrorCode = 1
                   /\ answer.RequestID = RequestOf(h).RequestID
                   /\ answer.Payload = frame[h].queryErr

C8_Witness ==
    \E h \in Handlers :
        /\ Returned(h, "commandQueryHandler")
        /\ Decodes(h)
        /\ frame[h].queryErr # ""
        /\ Len(PublishedBy(h)) = 1
        /\ PublishedBy(h)[1].topic = s_q

\* C9: on a command topic of at least three levels the handler takes the last
\* three levels, in order, as deviceName, commandName and method, whatever
\* precedes them; on a topic of fewer levels it returns having extracted
\* nothing.
C9_LastThreeLevels ==
    \A h \in Handlers :
        ( Returned(h, "commandRequestHandler") \/ pc[h] = "Request" ) /\ Decodes(h)
        => IF LevelsIn(message[h].topic) >= 3
           THEN /\ frame[h].deviceName = DeviceOf(message[h].topic)
                /\ frame[h].commandName = CommandOf(message[h].topic)
                /\ frame[h].method = MethodOf(message[h].topic)
           ELSE /\ frame[h].ret = 108
                /\ frame[h].deviceName = s_empty
                /\ frame[h].commandName = s_empty
                /\ frame[h].method = s_empty
                /\ frame[h].externalResponseTopic = s_empty

C9_Witness ==
    \E h \in Handlers :
        /\ pc[h] = "Request"
        /\ LevelsIn(message[h].topic) = 4
        /\ message[h].topic[1] = "g"
        /\ frame[h].deviceName = s_empty
        /\ frame[h].commandName = s_get
        /\ frame[h].method = s_SET

\* the invocation went past the method gate: it built the response topic and
\* asked validateRequestTopic for the route
PastMethodGate(h) ==
    /\ frame[h].externalResponseTopic = AnswerTopic(h)
    /\ frame[h].routeErr # "" \/ frame[h].deviceServiceName \in DeviceServiceNames

\* C10: a command request that decodes and parses goes on to the response
\* topic and to routing exactly when its method level is "get" or "set" in
\* some mix of cases; with any other method level, the empty one too, it
\* returns at the method gate.
C10_MethodGate ==
    \A h \in Handlers :
        ( /\ Returned(h, "commandRequestHandler") \/ pc[h] = "Request"
          /\ Decodes(h)
          /\ LevelsIn(message[h].topic) >= 3 )
        => /\ PastMethodGate(h) <=> IsGetOrSet(MethodOf(message[h].topic))
           /\ frame[h].ret = 118 <=> ~IsGetOrSet(MethodOf(message[h].topic))

C10_Witness ==
    \E h \in Handlers :
        /\ Decodes(h)
        /\ MethodOf(message[h].topic) = s_GeT
        /\ PastMethodGate(h)
        /\ frame[h].ret # 118

\* C11: the device name the query handler hands to the query collaborator is
\* the last level of the topic, except that "all" in any mix of cases becomes
\* the one sentinel common.All; any other last level is handed over as it is.
C11_QueryDeviceName ==
    \A h \in Handlers :
        ( Returned(h, "commandQueryHandler") /\ frame[h].ret = 84 )
        => frame[h].deviceName =
              IF Lowered(LastLevel(message[h].topic)) = s_all
              THEN s_all
              ELSE LastLevel(message[h].topic)

C11_Witness ==
    \E h \in Handlers :
        /\ Returned(h, "commandQueryHandler")
        /\ frame[h].ret = 84
        /\ LastLevel(message[h].topic) = s_AlL
        /\ frame[h].deviceName = s_all

\* the validator rejects the query parameters of h's request
ParamsRejected(h) == validateGetCommandQueryParameters(RequestOf(h).QueryParams) # ""

\* h is a command request that decoded, parsed, has that method in some mix of
\* cases, and for which validateRequestTopic returned a route
Routed(h, method) ==
    /\ pc[h] # "idle"
    /\ frame[h].handler = "commandRequestHandler"
    /\ Decodes(h)
    /\ LevelsIn(message[h].topic) >= 3
    /\ Lowered(MethodOf(message[h].topic)) = method
    /\ frame[h].routeErr = ""
    /\ frame[h].deviceServiceName \in DeviceServiceNames

\* C12, as claimed: a "set" request that decodes, parses and is routed is
\* never rejected for its QueryParams; whatever they are, the Request on the
\* internal bus is made.
C12_SetParamsNotChecked ==
    \A h \in Handlers :
        Routed(h, s_set) => /\ Len(RequestsBy(h)) = 1
                            /\ frame[h].ret # 135

\* C13: a "get" request that decodes, parses and is routed, but whose
\* QueryParams the validator rejects, is answered with exactly one error
\* envelope (ErrorCode 1, the request's RequestID) on the response topic, and
\* no Request is made on the internal bus.
C13_GetParamsRejected ==
    \A h \in Handlers :
        Routed(h, s_get) /\ ParamsRejected(h)
        => /\ pc[h] = "done"
           /\ OneErrorAnswer(h)
           /\ RequestsBy(h) = <<>>

C13_Witness ==
    \E h \in Handlers :
        /\ Routed(h, s_get)
        /\ MethodOf(message[h].topic) = s_GeT
        /\ RequestOf(h).QueryParams = BadParams
        /\ Len(PublishedBy(h)) = 1
        /\ PublishedBy(h)[1].payload[2].ErrorCode = 1

\* the return statement the first failing gate of h's message leads to, 0 when
\* no gate fails; the route is the one validateRequestTopic returned
FirstFailingGate(h) ==
    IF ~Decodes(h) THEN 100
    ELSE IF LevelsIn(message[h].topic) < 3 THEN 108
    ELSE IF ~IsGetOrSet(MethodOf(message[h].topic)) THEN 118
    ELSE IF frame[h].routeErr # "" THEN 128
    ELSE IF ParamsRejected(h) THEN 135
    ELSE 0

\* what h's locals and the logs show of the gates after the one it failed at
LaterGatesUntouched(h) ==
    /\ frame[h].ret = 100 => frame[h].topicLevels = <<>>
    /\ frame[h].ret \in {100, 108} => frame[h].method = s_empty
    /\ frame[h].ret \in {100, 108, 118} =>
          /\ frame[h].externalResponseTopic = s_empty
          /\ frame[h].routeErr = ""
          /\ frame[h].deviceServiceName = s_empty
          /\ PublishedBy(h) = <<>>
    /\ frame[h].ret \in {100, 108, 118, 128} => frame[h].paramsErr = ""
    /\ frame[h].ret \in {100, 108, 118, 128, 135} => RequestsBy(h) = <<>>

\* C14: the gates of a command request run in the order decode, topic parse,
\* method, routing, query parameters, Request; the first that fails decides
\* the outcome alone, no later gate is evaluated, and an error that is
\* published is that of the first failing gate.
C14_FirstFailingGateDecides ==
    \A h \in Handlers :
        ( pc[h] # "idle" /\ frame[h].handler = "commandRequestHandler" )
        => /\ IF FirstFailingGate(h) = 0
              THEN Len(RequestsBy(h)) = 1
              ELSE pc[h] = "done" /\ frame[h].ret = FirstFailingGate(h)
           /\ LaterGatesUntouched(h)
           /\ frame[h].ret = 128 =>
                 /\ Len(PublishedBy(h)) = 1
                 /\ PublishedBy(h)[1].payload[2].Payload = frame[h].routeErr
           /\ frame[h].ret = 135 =>
                 /\ Len(PublishedBy(h)) = 1
                 /\ PublishedBy(h)[1].payload[2].Payload =
                        validateGetCommandQueryParameters(RequestOf(h).QueryParams)

C14_Witness ==
    \E h \in Handlers :
        /\ Returned(h, "commandRequestHandler")
        /\ frame[h].routeErr # ""
        /\ ParamsRejected(h)
        /\ frame[h].ret = 128
        /\ Len(PublishedBy(h)) = 1
        /\ PublishedBy(h)[1].payload[2].Payload = frame[h].routeErr

\* C15, as claimed: when the Request fails, the Payload of the error envelope
\* is the failure message of the internal bus, nothing added or removed.
C15_PayloadIsBusMessage ==
    \A h \in Handlers :
        frame[h].requestErr # ""
        => /\ Len(PublishedBy(h)) = 1
           /\ PublishedBy(h)[1].payload[2].Payload = frame[h].requestErr

\* C15, amended: when the Request fails, the Payload of the error envelope is
\* "Failed to send DeviceCommand request with internal MessageBus: " followed
\* by the failure message of the internal bus.
C15_PayloadWrapsBusMessage ==
    \A h \in Handlers :
        frame[h].requestErr # ""
        => /\ Len(PublishedBy(h)) = 1
           /\ PublishedBy(h)[1].payload[2].Payload =
                 "Failed to send DeviceCommand request with internal MessageBus: "
                     \o frame[h].requestErr

C15_Witness ==
    \E h \in Handlers :
        /\ frame[h].requestErr = "not connected"
        /\ Len(PublishedBy(h)) = 1
        /\ PublishedBy(h)[1].payload[2].Payload =
              "Failed to send DeviceCommand request with internal MessageBus: not connected"

\* the internal request topic routing builds for the levels of h's topic
InternalTopic(h) ==
    config.MessageBus.Topics[DeviceCommandRequestTopicPrefixKey] \o <<Slash>> \o
    frame[h].deviceServiceName \o <<Slash>> \o
    DeviceOf(message[h].topic) \o <<Slash>> \o CommandOf(message[h].topic) \o <<Slash>> \o
    MethodOf(message[h].topic)

\* C16: the Request on the internal bus is made at most once per command
\* request, only when every earlier gate has passed, with the decoded request
\* envelope as it is, to the device service and the internal request topic
\* that routing returned for the parsed levels, and with the configured
\* request timeout.
C16_RequestAsRouted ==
    \A h \in Handlers :
        /\ Len(RequestsBy(h)) <= 1
        /\ Len(RequestsBy(h)) = 1 =>
              /\ frame[h].handler = "commandRequestHandler"
              /\ FirstFailingGate(h) = 0
              /\ RequestsBy(h)[1].envelope = RequestOf(h)
              /\ RequestsBy(h)[1].deviceServiceName = frame[h].deviceServiceName
              /\ RequestsBy(h)[1].deviceServiceName \in DeviceServiceNames
              /\ RequestsBy(h)[1].topic = InternalTopic(h)
              /\ RequestsBy(h)[1].timeout = config.requestTimeout

C16_Witness ==
    \E h \in Handlers :
        /\ pc[h] = "Request"
        /\ Len(RequestsBy(h)) = 1
        /\ RequestsBy(h)[1].envelope.QueryParams = GoodParams
        /\ RequestsBy(h)[1].deviceServiceName = s_svcB
        /\ LevelsIn(message[h].topic) > 3

\* the topic an answer to h's message belongs on
OwnTopic(h) ==
    IF frame[h].handler = "commandRequestHandler"
    THEN AnswerTopic(h)
    ELSE config.ExternalMQTT.Topics[CommandQueryResponseTopicKey]

\* the envelope comes from h's own request or from the result h itself got
OwnEnvelope(h, envelope) ==
    IF BuiltError(h)
    THEN /\ envelope.RequestID = RequestOf(h).RequestID
         /\ envelope.ErrorCode = 1
         /\ envelope.Payload \in
               { frame[h].routeErr, frame[h].paramsErr, frame[h].queryErr,
                 "Failed to send DeviceCommand request with internal MessageBus: "
                     \o frame[h].requestErr }
    ELSE envelope = frame[h].response

\* every Publish call is on the topic of its own invocation's message, carries
\* an envelope of its own invocation, and has the configured QoS and retain
\* flag
OwnAnswersOnly ==
    \A k \in 1..Len(published) :
        LET call == published[k] IN
        /\ call.topic = OwnTopic(call.handler)
        /\ OwnEnvelope(call.handler, call.payload[2])
        /\ call.qos = config.ExternalMQTT.QoS
        /\ call.retain = config.ExternalMQTT.Retain

\* C17: with several command and query requests handled concurrently, in any
\* interleaving, each invocation publishes only on the response topic of its
\* own message and only an envelope derived from its own request or its own
\* result, and no invocation changes the configuration (topics, QoS, retain
\* flag, timeout) the others see.
C17_InvocationsIsolated ==
    /\ []OwnAnswersOnly
    /\ [][config' = config]_vars

C17_Witness ==
    /\ pc["h1"] = "done" /\ pc["h2"] = "done"
    /\ Len(busRequests) = 2 /\ busRequests[1].handler = "h1"
    /\ Len(published) = 2 /\ published[1].handler = "h2"
    /\ published[1].topic # published[2].topic
    /\ published[1].payload[2].RequestID # published[2].payload[2].RequestID
    /\ frame["h1"].ret = 154 /\ frame["h2"].ret = 148

\* C18: on every connect OnConnectHandler attempts both subscriptions, the
\* query request topic first and the command request topic second, each with
\* the configured QoS; a failed subscription to the query request topic does
\* not keep the command request topic from being attempted.
C18_BothSubscriptionsAttempted ==
    \A k \in 1..Len(subscriptions) :
        IF k % 2 = 1
        THEN /\ subscriptions[k].handler = "commandQueryHandler"
             /\ subscriptions[k].topic = config.ExternalMQTT.Topics[CommandQueryRequestTopicKey]
             /\ subscriptions[k].qos = config.ExternalMQTT.QoS
             /\ k + 1 <= Len(subscriptions)
        ELSE /\ subscriptions[k].handler = "commandRequestHandler"
             /\ subscriptions[k].topic = config.ExternalMQTT.Topics[CommandRequestTopicKey]
             /\ subscriptions[k].qos = config.ExternalMQTT.QoS

C18_Witness ==
    /\ Len(subscriptions) = 4
    /\ subscriptions[3].tokenErr # ""
    /\ subscriptions[4].handler = "commandRequestHandler"
    /\ subscriptions[4].tokenErr = ""

\* the command request of h decoded, had three levels or more and a method
\* level that is "get" or "set" in some mix of cases
Accepted(h) ==
    /\ frame[h].handler = "commandRequestHandler"
    /\ Decodes(h)
    /\ LevelsIn(message[h].topic) >= 3
    /\ IsGetOrSet(MethodOf(message[h].topic))

\* the requests of h and g name the same device and command, and their method
\* levels differ in case only
SameButCase(h, g) ==
    /\ DeviceOf(message[h].topic) = DeviceOf(message[g].topic)
    /\ CommandOf(message[h].topic) = CommandOf(message[g].topic)
    /\ Lowered(MethodOf(message[h].topic)) = Lowered(MethodOf(message[g].topic))
    /\ MethodOf(message[h].topic) # MethodOf(message[g].topic)

\* C19: the command response topic is the configured response prefix joined
\* by '/' with the device, command and method levels exactly as they stand in
\* the request topic, the method level in the case it was sent in; two
\* accepted requests whose method levels differ in case only are both taken
\* past the method gate and are answered on different response topics.
C19_ResponseTopicVerbatim ==
    /\ \A h \in Handlers :
          Accepted(h)
          => /\ frame[h].ret # 118
             /\ frame[h].externalResponseTopic = AnswerTopic(h)
             /\ LastLevel(frame[h].externalResponseTopic) = MethodOf(message[h].topic)
             /\ \A k \in 1..Len(PublishedBy(h)) :
                   /\ PublishedBy(h)[k].topic = AnswerTopic(h)
                   /\ LastLevel(PublishedBy(h)[k].topic) = MethodOf(message[h].topic)
    /\ \A h \in Handlers, g \in Handlers :
          Accepted(h) /\ Accepted(g) /\ SameButCase(h, g)
          => /\ frame[h].externalResponseTopic # frame[g].externalResponseTopic
             /\ \A k \in 1..Len(PublishedBy(h)), j \in 1..Len(PublishedBy(g)) :
                   PublishedBy(h)[k].topic # PublishedBy(g)[j].topic

C19_Witness ==
    \E h \in Handlers, g \in Handlers :
        /\ Accepted(h) /\ Accepted(g)
        /\ MethodOf(message[h].topic) = s_get
        /\ MethodOf(message[g].topic) = s_GeT
        /\ SameButCase(h, g)
        /\ frame[h].ret = 154 /\ frame[g].ret = 154
        /\ Len(PublishedBy(h)) = 1 /\ Len(PublishedBy(g)) = 1
        /\ PublishedBy(h)[1].topic # PublishedBy(g)[1].topic

====
